---- MODULE Spec2Model ----
(***************************************************************************)
(* Model of image_toggle_service.cpp: the ImageToggleService node.         *)
(*                                                                         *)
(* The node subscribes to /image_raw, converts every frame to grayscale    *)
(* or to color according to the flag use_grayscale_, publishes the result  *)
(* on /image_processed, and serves toggle_grayscale (SetBool), which sets  *)
(* the flag.  main() runs the node under rclcpp::spin, a single-threaded   *)
(* executor: callbacks run one at a time, each to completion, while new    *)
(* frames and requests may arrive at any moment and wait in the            *)
(* middleware until the executor takes them.                               *)
(*                                                                         *)
(* Images are 8-bit unsigned (the depth of the tags "mono8" and "bgr8"     *)
(* the node stamps on its output).  A pixel is a sequence of channel       *)
(* values; the data of an image is the row-major sequence of its pixels.   *)
(***************************************************************************)
EXTENDS Integers, Sequences, FiniteSets

(* ------------------------------ bounds -------------------------------- *)

\* Frames sent on /image_raw in one behaviour.
MaxFrames == 2

\* toggle_grayscale requests sent in one behaviour.
MaxCalls == 2

\* Largest number of pixels (width * height) of an input frame.
MaxPixels == 2

\* Channel values input pixels are drawn from (a dark and a saturated one).
PixVals == {64, 255}

\* The channel value of the frames FrameArrives sends.
FeedVals == {255}

(* --------------------------- cv_bridge ------------------------------- *)

\* Encodings of the frames sent to the node.  "jpeg" is not an encoding
\* cv_bridge can turn into a matrix type.
Encodings == {"mono8", "yuv422", "bgr8", "rgb8", "bgra8", "8UC5", "jpeg"}

\* cv_bridge's channel count of an encoding; 0 where it has none and
\* toCvCopy throws cv_bridge::Exception.
NumChannels(encoding) ==
    CASE encoding = "mono8"  -> 1
      [] encoding = "yuv422" -> 2
      [] encoding = "bgr8"   -> 3
      [] encoding = "rgb8"   -> 3
      [] encoding = "bgra8"  -> 4
      [] encoding = "8UC5"   -> 5
      [] OTHER               -> 0

\* Values per pixel of the data of a message.  The data of a message in
\* an encoding cv_bridge does not know is opaque; it is given one value
\* per pixel.
ValuesPerPixel(encoding) ==
    IF NumChannels(encoding) = 0 THEN 1 ELSE NumChannels(encoding)

\* The sensor_msgs/Image message with these fields; step is the number of
\* bytes of one row.
ImageMsg(header, encoding, width, height, data) ==
    [header |-> header, encoding |-> encoding,
     width |-> width, height |-> height,
     step |-> width * ValuesPerPixel(encoding),
     data |-> data]

\* The pixel data of a width x height image in `encoding`, with channel
\* values in `vals`.
PixelData(encoding, width, height, vals) ==
    [1..(width * height) -> [1..ValuesPerPixel(encoding) -> vals]]

\* cv_bridge::toCvCopy(msg, msg->encoding): the message as a CvImage with
\* the header and encoding of the message and a copy of its pixels, or the
\* exception thrown for an encoding without a matrix type.
toCvCopy(msg) ==
    IF NumChannels(msg.encoding) = 0
    THEN [ok |-> FALSE, cv |-> <<>>]
    ELSE [ok |-> TRUE,
          cv |-> << [header   |-> msg.header,
                     encoding |-> msg.encoding,
                     image    |-> [channels |-> NumChannels(msg.encoding),
                                   cols     |-> msg.width,
                                   rows     |-> msg.height,
                                   data     |-> msg.data]] >>]

\* CvImage::toImageMsg(): header and encoding of the CvImage, geometry and
\* pixels of its matrix; step is the number of bytes of one row.
toImageMsg(header, encoding, image) ==
    [header   |-> header,
     encoding |-> encoding,
     width    |-> image.cols,
     height   |-> image.rows,
     step     |-> image.cols * image.channels,
     data     |-> image.data]

(* ----------------------------- OpenCV -------------------------------- *)

\* saturate_cast<uchar>
Saturate(x) == IF x < 0 THEN 0 ELSE IF x > 255 THEN 255 ELSE x

\* CV_DESCALE(x, 14): rounding right shift of the 14-bit fixed point.
Descale(x) == (x + 8192) \div 16384

\* A matrix with the geometry of `image`, `ch` channels and pixel i = f[i].
MatOf(image, ch, f) ==
    [channels |-> ch, cols |-> image.cols, rows |-> image.rows,
     data |-> [i \in 1..Len(image.data) |-> f[i]]]

\* The 8-bit luma of a pixel in B, G, R order.
Luma(p) == Descale(p[1] * 1868 + p[2] * 9617 + p[3] * 4899)

\* cv::cvtColor(.., COLOR_BGR2GRAY) and COLOR_BGRA2GRAY (alpha ignored).
BGR2GRAY(image) ==
    MatOf(image, 1, [i \in 1..Len(image.data) |-> << Luma(image.data[i]) >>])

\* cv::cvtColor(.., COLOR_GRAY2BGR)
GRAY2BGR(image) ==
    MatOf(image, 3, [i \in 1..Len(image.data) |->
        << image.data[i][1], image.data[i][1], image.data[i][1] >>])

\* cv::cvtColor(.., COLOR_BGRA2BGR)
BGRA2BGR(image) ==
    MatOf(image, 3, [i \in 1..Len(image.data) |->
        << image.data[i][1], image.data[i][2], image.data[i][3] >>])

\* One pixel of cv::cvtColor(.., COLOR_YUV2BGR) on 8-bit data: chroma is
\* centred on 128.
YUV2BGRPixel(p) ==
    << Saturate(p[1] + Descale((p[2] - 128) * 33292)),
       Saturate(p[1] + Descale((p[2] - 128) * (-6472) + (p[3] - 128) * (-9519))),
       Saturate(p[1] + Descale((p[3] - 128) * 18678)) >>

\* cv::cvtColor(.., COLOR_YUV2BGR)
YUV2BGR(image) ==
    MatOf(image, 3, [i \in 1..Len(image.data) |-> YUV2BGRPixel(image.data[i])])

\* channels_vec[k] after cv::split(image, channels_vec), k counted from 0.
SplitChannel(image, k) ==
    MatOf(image, 1, [i \in 1..Len(image.data) |-> << image.data[i][k + 1] >>])

\* cv::Mat::zeros(size of image, one channel)
Zeros(image) ==
    MatOf(image, 1, [i \in 1..Len(image.data) |-> << 0 >>])

\* cv::merge of three one-channel matrices.
Merge3(a, b, c) ==
    MatOf(a, 3, [i \in 1..Len(a.data) |->
        << a.data[i][1], b.data[i][1], c.data[i][1] >>])

(* ------------------------ ImageToggleService -------------------------- *)

VARIABLES
    use_grayscale_,  \* the mode flag of the node
    pc,              \* "idle", or "imageCallback" while a frame is in work
    cv_ptr,          \* <<CvImage>> of the frame in work, <<>> otherwise
    imageQ,          \* frames delivered on /image_raw, not yet taken
    requestQ,        \* toggle_grayscale requests received, not yet served
    published,       \* the messages published on /image_processed, in order
    responses,       \* the responses returned by toggle_grayscale, in order
    log,             \* history: the outcome of every frame taken, in order
    sent,            \* history: the frames sent on /image_raw, in order
    called           \* history: number of toggle_grayscale requests sent

vars == << use_grayscale_, pc, cv_ptr, imageQ, requestQ, published,
           responses, log, sent, called >>

\* Mutant of GrayscaleBranch: the 4-channel case converts the image and
\* leaves the encoding of the input on it.
GrayscaleBranch_KeepsTag(input_image) ==
    CASE input_image.channels = 3 ->
           [ok |-> TRUE, image |-> BGR2GRAY(input_image), encoding |-> "mono8"]
      [] input_image.channels = 4 ->
           [ok |-> TRUE, image |-> BGR2GRAY(input_image), encoding |-> "bgra8"]
      [] input_image.channels = 2 ->
           [ok |-> TRUE, image |-> SplitChannel(input_image, 0), encoding |-> "mono8"]
      [] input_image.channels = 1 ->
           [ok |-> TRUE, image |-> input_image, encoding |-> "mono8"]
      [] OTHER ->
           [ok |-> FALSE]

\* The outcome of the dispatch on the channel count of input_image under
\* the mode `gray`: the processed image and the encoding given to cv_ptr,
\* or the "Unsupported number of channels" return.
GrayscaleBranch(input_image) ==
    CASE input_image.channels = 3 ->
           [ok |-> TRUE, image |-> BGR2GRAY(input_image), encoding |-> "mono8"]
      [] input_image.channels = 4 ->
           [ok |-> TRUE, image |-> BGR2GRAY(input_image), encoding |-> "mono8"]
      [] input_image.channels = 2 ->
           [ok |-> TRUE, image |-> SplitChannel(input_image, 0), encoding |-> "mono8"]
      [] input_image.channels = 1 ->
           [ok |-> TRUE, image |-> input_image, encoding |-> "mono8"]
      [] OTHER ->
           [ok |-> FALSE]

\* Mutant of ColorBranch: no check of the channel count after the 1- and
\* 4-channel cases; every other image is passed on as "bgr8".
ColorBranch_NoElse(input_image) ==
    CASE input_image.channels = 1 ->
           [ok |-> TRUE, image |-> GRAY2BGR(input_image), encoding |-> "bgr8"]
      [] input_image.channels = 4 ->
           [ok |-> TRUE, image |-> BGRA2BGR(input_image), encoding |-> "bgr8"]
      [] input_image.channels = 2 ->
           [ok |-> TRUE,
            image |-> YUV2BGR(Merge3(SplitChannel(input_image, 0),
                                     Zeros(input_image), Zeros(input_image))),
            encoding |-> "bgr8"]
      [] OTHER ->
           [ok |-> TRUE, image |-> input_image, encoding |-> "bgr8"]

\* Mutant of ColorBranch: the 3-channel case swaps red and blue (an RGB to
\* BGR conversion) instead of passing the image on.
ColorBranch_SwapsRB(input_image) ==
    CASE input_image.channels = 1 ->
           [ok |-> TRUE, image |-> GRAY2BGR(input_image), encoding |-> "bgr8"]
      [] input_image.channels = 3 ->
           [ok |-> TRUE,
            image |-> MatOf(input_image, 3,
                [i \in 1..Len(input_image.data) |->
                    << input_image.data[i][3], input_image.data[i][2],
                       input_image.data[i][1] >>]),
            encoding |-> "bgr8"]
      [] input_image.channels = 4 ->
           [ok |-> TRUE, image |-> BGRA2BGR(input_image), encoding |-> "bgr8"]
      [] input_image.channels = 2 ->
           [ok |-> TRUE,
            image |-> YUV2BGR(Merge3(SplitChannel(input_image, 0),
                                     Zeros(input_image), Zeros(input_image))),
            encoding |-> "bgr8"]
      [] OTHER ->
           [ok |-> FALSE]

ColorBranch(input_image) ==
    CASE input_image.channels = 1 ->
           [ok |-> TRUE, image |-> GRAY2BGR(input_image), encoding |-> "bgr8"]
      [] input_image.channels = 3 ->
           [ok |-> TRUE, image |-> input_image, encoding |-> "bgr8"]
      [] input_image.channels = 4 ->
           [ok |-> TRUE, image |-> BGRA2BGR(input_image), encoding |-> "bgr8"]
      [] input_image.channels = 2 ->
           [ok |-> TRUE,
            image |-> YUV2BGR(Merge3(SplitChannel(input_image, 0),
                                     Zeros(input_image), Zeros(input_image))),
            encoding |-> "bgr8"]
      [] OTHER ->
           [ok |-> FALSE]

Convert(input_image, gray) ==
    IF gray THEN GrayscaleBranch(input_image) ELSE ColorBranch(input_image)

\* Mutant of ToggleMessage: the two messages exchanged.
ToggleMessage_Swapped(gray) ==
    IF gray THEN "Switched to color mode." ELSE "Switched to grayscale mode."

\* response->message of handleToggleRequest, from the updated flag.
ToggleMessage(gray) ==
    IF gray THEN "Switched to grayscale mode." ELSE "Switched to color mode."

\* Mutant of Init: the constructor starts the node in grayscale mode.
Init_Grayscale ==
    /\ use_grayscale_ = TRUE
    /\ pc = "idle"
    /\ cv_ptr = <<>>
    /\ imageQ = <<>>
    /\ requestQ = <<>>
    /\ published = <<>>
    /\ responses = <<>>
    /\ log = <<>>
    /\ sent = <<>>
    /\ called = 0

\* The constructor: color mode, nothing received, nothing published.
Init ==
    /\ use_grayscale_ = FALSE
    /\ pc = "idle"
    /\ cv_ptr = <<>>
    /\ imageQ = <<>>
    /\ requestQ = <<>>
    /\ published = <<>>
    /\ responses = <<>>
    /\ log = <<>>
    /\ sent = <<>>
    /\ called = 0

\* A frame is delivered on /image_raw.  Its header carries its position in
\* the stream.
FrameArrives ==
    /\ Len(sent) < MaxFrames
    /\ \E e \in Encodings : \E d \in PixelData(e, 1, 1, FeedVals) :
         LET msg == ImageMsg(Len(sent) + 1, e, 1, 1, d) IN
             /\ imageQ' = Append(imageQ, msg)
             /\ sent' = Append(sent, msg)
    /\ UNCHANGED << use_grayscale_, pc, cv_ptr, requestQ, published,
                    responses, log, called >>

\* A toggle_grayscale request is received.
RequestArrives ==
    /\ called < MaxCalls
    /\ \E data \in BOOLEAN : requestQ' = Append(requestQ, data)
    /\ called' = called + 1
    /\ UNCHANGED << use_grayscale_, pc, cv_ptr, imageQ, published,
                    responses, log, sent >>

\* Mutant of ImageCallbackDecode: the cv_bridge exception is not caught
\* and ends the process.
ImageCallbackDecode_NoCatch ==
    /\ pc = "idle"
    /\ imageQ # <<>>
    /\ imageQ' = Tail(imageQ)
    /\ LET r == toCvCopy(Head(imageQ)) IN
         IF r.ok
         THEN /\ cv_ptr' = r.cv
              /\ pc' = "imageCallback"
              /\ log' = log
         ELSE /\ cv_ptr' = <<>>
              /\ pc' = "terminated"
              /\ log' = Append(log, [header  |-> Head(imageQ).header,
                                     outcome |-> "decode_failure",
                                     gray    |-> use_grayscale_])
    /\ UNCHANGED << use_grayscale_, requestQ, published, responses,
                    sent, called >>

\* imageCallback, first part: the executor takes the oldest frame and
\* decodes it; a cv_bridge exception is logged and the callback returns.
ImageCallbackDecode ==
    /\ pc = "idle"
    /\ imageQ # <<>>
    /\ imageQ' = Tail(imageQ)
    /\ LET r == toCvCopy(Head(imageQ)) IN
         IF r.ok
         THEN /\ cv_ptr' = r.cv
              /\ pc' = "imageCallback"
              /\ log' = log
         ELSE /\ cv_ptr' = <<>>
              /\ pc' = "idle"
              /\ log' = Append(log, [header  |-> Head(imageQ).header,
                                     outcome |-> "decode_failure",
                                     gray    |-> use_grayscale_])
    /\ UNCHANGED << use_grayscale_, requestQ, published, responses,
                    sent, called >>

\* Mutant of ImageCallbackConvert: no return after "Unsupported number of
\* channels"; the empty processed image is published.
ImageCallbackConvert_NoReturn ==
    /\ pc = "imageCallback"
    /\ LET r == Convert(cv_ptr[1].image, use_grayscale_) IN
         IF r.ok
         THEN /\ published' = Append(published,
                     toImageMsg(cv_ptr[1].header, r.encoding, r.image))
              /\ log' = Append(log, [header  |-> cv_ptr[1].header,
                                     outcome |-> "published",
                                     gray    |-> use_grayscale_])
         ELSE /\ published' = Append(published,
                     toImageMsg(cv_ptr[1].header, cv_ptr[1].encoding,
                                [channels |-> 1, cols |-> 0, rows |-> 0,
                                 data |-> <<>>]))
              /\ log' = Append(log, [header  |-> cv_ptr[1].header,
                                     outcome |-> "unsupported",
                                     gray    |-> use_grayscale_])
    /\ cv_ptr' = <<>>
    /\ pc' = "idle"
    /\ UNCHANGED << use_grayscale_, imageQ, requestQ, responses, sent, called >>

\* imageCallback, second part: the dispatch on mode and channel count,
\* then the publication of the processed image, or the return for an
\* unsupported channel count.
ImageCallbackConvert ==
    /\ pc = "imageCallback"
    /\ LET r == Convert(cv_ptr[1].image, use_grayscale_) IN
         IF r.ok
         THEN /\ published' = Append(published,
                     toImageMsg(cv_ptr[1].header, r.encoding, r.image))
              /\ log' = Append(log, [header  |-> cv_ptr[1].header,
                                     outcome |-> "published",
                                     gray    |-> use_grayscale_])
         ELSE /\ published' = published
              /\ log' = Append(log, [header  |-> cv_ptr[1].header,
                                     outcome |-> "unsupported",
                                     gray    |-> use_grayscale_])
    /\ cv_ptr' = <<>>
    /\ pc' = "idle"
    /\ UNCHANGED << use_grayscale_, imageQ, requestQ, responses, sent, called >>

\* Mutant of handleToggleRequest: the request flips the mode instead of
\* setting it to request->data.
handleToggleRequest_Flips ==
    /\ pc = "idle"
    /\ requestQ # <<>>
    /\ use_grayscale_' = ~use_grayscale_
    /\ responses' = Append(responses,
           [data    |-> Head(requestQ),
            success |-> TRUE,
            message |-> ToggleMessage(use_grayscale_'),
            mode    |-> use_grayscale_',
            frames  |-> Len(log)])
    /\ requestQ' = Tail(requestQ)
    /\ UNCHANGED << pc, cv_ptr, imageQ, published, log, sent, called >>

\* Mutant of handleToggleRequest: the service runs on a thread of its own
\* and does not wait for the image callback to return.
handleToggleRequest_Preempts ==
    /\ requestQ # <<>>
    /\ use_grayscale_' = Head(requestQ)
    /\ responses' = Append(responses,
           [data    |-> Head(requestQ),
            success |-> TRUE,
            message |-> ToggleMessage(use_grayscale_'),
            mode    |-> use_grayscale_',
            frames  |-> Len(log)])
    /\ requestQ' = Tail(requestQ)
    /\ UNCHANGED << pc, cv_ptr, imageQ, published, log, sent, called >>

\* handleToggleRequest: the executor serves the oldest request, between
\* two callbacks.
handleToggleRequest ==
    /\ pc = "idle"
    /\ requestQ # <<>>
    /\ use_grayscale_' = Head(requestQ)
    /\ responses' = Append(responses,
           [data    |-> Head(requestQ),
            success |-> TRUE,
            message |-> ToggleMessage(use_grayscale_'),
            mode    |-> use_grayscale_',
            frames  |-> Len(log)])
    /\ requestQ' = Tail(requestQ)
    /\ UNCHANGED << pc, cv_ptr, imageQ, published, log, sent, called >>

Next ==
    \/ FrameArrives
    \/ RequestArrives
    \/ ImageCallbackDecode
    \/ ImageCallbackConvert
    \/ handleToggleRequest

Spec == Init /\ [][Next]_vars

\* rclcpp::spin runs every callback that is ready.
Fairness ==
    /\ WF_vars(ImageCallbackDecode)
    /\ WF_vars(ImageCallbackConvert)
    /\ WF_vars(handleToggleRequest)

FairSpec == Spec /\ Fairness

\* The conversion of one frame in either mode: the node in any mode, one
\* frame delivered.
InitConvert ==
    /\ use_grayscale_ \in BOOLEAN
    /\ pc = "idle"
    /\ cv_ptr = <<>>
    /\ \E e \in Encodings : \E w, h \in 1..MaxPixels :
         /\ w * h <= MaxPixels
         /\ \E d \in PixelData(e, w, h, PixVals) :
              imageQ = << ImageMsg(1, e, w, h, d) >>
    /\ requestQ = <<>>
    /\ published = <<>>
    /\ responses = <<>>
    /\ log = <<>>
    /\ sent = imageQ
    /\ called = 0

NextConvert ==
    \/ ImageCallbackDecode
    \/ ImageCallbackConvert

SpecConvert == InitConvert /\ [][NextConvert]_vars

(* ---------------------------- properties ------------------------------ *)

\* Channel count of a message: bytes of a row over pixels of a row.
ChannelsOf(m) == m.step \div m.width

\* The channel count cv_bridge gives the input image of a message.
InputChannels(m) == NumChannels(m.encoding)

Supported == 1..4

\* The log entry of the frame with header h, and the message published
\* for it.
LogOf(h) == CHOOSE i \in 1..Len(log) : log[i].header = h

PublishedFor(h) == { i \in 1..Len(published) : published[i].header = h }

Handled == { log[i].header : i \in 1..Len(log) }

Failed(i) == log[i].outcome \in {"decode_failure", "unsupported"}

\* The headers, in order, of the first k frames sent that cv_bridge decodes
\* to a supported channel count.
RECURSIVE Converted(_)
Converted(k) ==
    IF k = 0 THEN <<>>
    ELSE IF InputChannels(sent[k]) \in Supported
         THEN Append(Converted(k - 1), sent[k].header)
         ELSE Converted(k - 1)

\* The mode set by the last control call served before the k-th frame was
\* taken; color when there was none.
ModeAt(k) ==
    LET before == { j \in 1..Len(responses) : responses[j].frames < k } IN
        IF before = {} THEN FALSE
        ELSE responses[CHOOSE j \in before : \A x \in before : x <= j].data

\* C1: every frame of 1, 2, 3 or 4 channels that imageCallback has handled
\* has one published message, tagged "mono8" with 1 channel if the node
\* was in grayscale mode and "bgr8" with 3 channels if it was in color
\* mode, whatever the encoding of the input.
C1_DispatchTable ==
    \A h \in Handled :
        InputChannels(sent[h]) \in Supported =>
            /\ Cardinality(PublishedFor(h)) = 1
            /\ \A i \in PublishedFor(h) :
                 LET out  == published[i]
                     gray == log[LogOf(h)].gray
                 IN  /\ out.encoding = IF gray THEN "mono8" ELSE "bgr8"
                     /\ ChannelsOf(out) = IF gray THEN 1 ELSE 3
                     /\ \A x \in 1..Len(out.data) :
                          Len(out.data[x]) = ChannelsOf(out)

C1_Witness ==
    /\ Len(published) = 1
    /\ use_grayscale_
    /\ sent[1].encoding = "bgra8"
    /\ published[1].encoding = "mono8"

\* C2: the callback on a decoded frame whose channel count is not 1, 2, 3
\* or 4 ends with the unsupported-channel-count outcome, publishes nothing
\* and leaves the mode as it was, in either mode.
C2_UnsupportedDropped ==
    [][ ( /\ pc = "imageCallback"
          /\ pc' = "idle"
          /\ cv_ptr[1].image.channels \notin Supported )
        => ( /\ published' = published
             /\ use_grayscale_' = use_grayscale_
             /\ Len(log') = Len(log) + 1
             /\ log'[Len(log')].outcome = "unsupported"
             /\ log'[Len(log')].header = cv_ptr[1].header ) ]_vars

C2_Witness ==
    /\ \E i \in 1..Len(log) :
         /\ log[i].outcome = "unsupported"
         /\ log[i].gray
         /\ InputChannels(sent[log[i].header]) = 5
         /\ PublishedFor(log[i].header) = {}
    /\ \E i \in 1..Len(log) :
         /\ log[i].outcome = "unsupported"
         /\ ~log[i].gray

\* C3: the published messages are, in order, exactly the frames handled so
\* far that decode to a supported channel count: one message each, in
\* arrival order, none for a frame that failed.
C3_PublishedOneToOne ==
    /\ [i \in 1..Len(published) |-> published[i].header] = Converted(Len(log))
    /\ \A i \in 1..Len(log) : log[i].header = i
    /\ \A i \in 1..Len(log) : Failed(i) => PublishedFor(log[i].header) = {}

C3_Witness ==
    /\ Len(log) = 2
    /\ Failed(1)
    /\ log[2].outcome = "published"
    /\ Len(published) = 1
    /\ published[1].header = 2

\* C4: once a control call with argument true has been served, and until
\* another control call is served, the mode reads grayscale: in every
\* state, and for every frame handled since, whatever the conversions in
\* between.
C4_SetThenGet ==
    (responses # <<>> /\ responses[Len(responses)].data = TRUE) =>
        /\ use_grayscale_ = TRUE
        /\ \A i \in 1..Len(log) :
             i > responses[Len(responses)].frames => log[i].gray = TRUE

C4_Witness ==
    /\ responses # <<>>
    /\ responses[Len(responses)].data = TRUE
    /\ Len(log) > responses[Len(responses)].frames
    /\ pc = "imageCallback"

\* C5: every control call is answered with success = true, with the mode
\* equal to its argument when it returns and with the message of that
\* mode; no request is rejected or lost.
C5_ControlAlwaysSucceeds ==
    /\ Len(responses) + Len(requestQ) = called
    /\ \A i \in 1..Len(responses) :
         /\ responses[i].success = TRUE
         /\ responses[i].mode = responses[i].data
         /\ responses[i].message =
              IF responses[i].data THEN "Switched to grayscale mode."
                                   ELSE "Switched to color mode."

C5_Witness ==
    /\ Len(responses) = 2
    /\ responses[1].data = TRUE
    /\ responses[2].data = FALSE
    /\ log # <<>>

\* C6: the mode is the argument of the last control call served, and color
\* before the first one; frames, converted or dropped, do not change it.
C6_ModeIsLastControl ==
    use_grayscale_ = IF responses = <<>> THEN FALSE
                     ELSE responses[Len(responses)].data

C6_Witness ==
    /\ responses # <<>>
    /\ use_grayscale_
    /\ \E i \in 1..Len(log) :
         i > responses[Len(responses)].frames /\ Failed(i)
    /\ \E i \in 1..Len(log) :
         i > responses[Len(responses)].frames /\ log[i].outcome = "published"

\* C7: a 1-channel frame converted in grayscale mode, and a 3-channel frame
\* converted in color mode, is published with the pixels, the width, the
\* height and the channel count of the input.
C7_TargetFormatUnchanged ==
    \A i \in 1..Len(published) :
        LET out  == published[i]
            in   == sent[out.header]
            gray == log[LogOf(out.header)].gray
        IN  InputChannels(in) = (IF gray THEN 1 ELSE 3) =>
                /\ out.data = in.data
                /\ out.width = in.width
                /\ out.height = in.height
                /\ ChannelsOf(out) = InputChannels(in)

C7_Witness ==
    /\ Len(published) = 1
    /\ ~use_grayscale_
    /\ sent[1].encoding = "bgr8"
    /\ Len(sent[1].data) = 2
    /\ sent[1].data[1] = << 64, 255, 255 >>
    /\ sent[1].data[2] = << 255, 64, 64 >>

\* Every frame sent that decodes to a supported channel count has a
\* published message, tagged for the mode in force when it was handled,
\* and every control call sent has its successful response.
AllServed ==
    /\ \A h \in 1..Len(sent) :
         InputChannels(sent[h]) \in Supported =>
            /\ PublishedFor(h) # {}
            /\ \A i \in PublishedFor(h) :
                 published[i].encoding = IF ModeAt(h) THEN "mono8" ELSE "bgr8"
    /\ Len(responses) = called
    /\ \A n \in 1..Len(responses) : responses[n].success

\* C8: a dropped frame stops nothing.  From any moment after a frame has
\* failed to decode or had an unsupported channel count, the node comes to
\* have published every convertible frame sent so far, under the mode then
\* in force, and to have answered every control call sent so far.
C8_FailuresNotFatal ==
    (\E i \in 1..Len(log) : Failed(i)) ~> AllServed

C8_Witness ==
    /\ \E i, j \in 1..Len(log) :
         /\ i < j
         /\ Failed(i)
         /\ log[j].outcome = "published"
    /\ \E n \in 1..Len(responses) :
         /\ responses[n].frames >= 1
         /\ Failed(1)

\* C9: a 2-channel frame converted in color mode is published as a
\* 3-channel "bgr8" message, each pixel the YUV to BGR conversion of
\* (channel 0, 0, 0), and the luma of each output pixel is channel 0 of
\* the input pixel.
C9_ZeroChromaKeepsLuma ==
    \A i \in 1..Len(published) :
        LET out  == published[i]
            in   == sent[out.header]
            gray == log[LogOf(out.header)].gray
        IN  (InputChannels(in) = 2 /\ ~gray) =>
                /\ out.encoding = "bgr8"
                /\ ChannelsOf(out) = 3
                /\ \A x \in 1..Len(out.data) :
                     /\ out.data[x] = YUV2BGRPixel(<< in.data[x][1], 0, 0 >>)
                     /\ Luma(out.data[x]) = in.data[x][1]

\* C10: the mode does not change while a frame is in work, also when a
\* control call arrives meanwhile, and every published message is either
\* 1 channel tagged "mono8" or 3 channels tagged "bgr8".
C10_NoTornMode ==
    /\ [][pc = "imageCallback" => use_grayscale_' = use_grayscale_]_vars
    /\ [](\A i \in 1..Len(published) :
            \/ published[i].encoding = "mono8" /\ ChannelsOf(published[i]) = 1
            \/ published[i].encoding = "bgr8" /\ ChannelsOf(published[i]) = 3)

C10_Witness ==
    /\ pc = "imageCallback"
    /\ requestQ # <<>>
    /\ Head(requestQ) # use_grayscale_
    /\ published # <<>>

====
